---- MODULE Spec2Model ----
(***************************************************************************)
(* The report front-end build of mlsnippet: the gulp tasks of              *)
(* mlsnippet/report/frontend/gulpfile.js and of the older gulpfile         *)
(* (styles / js / html), run once through `gulp default`.                  *)
(*                                                                         *)
(* File contents are sequences of tokens.  The tokens the repository's own *)
(* regular expressions look at are kept apart: IMPORT (the text            *)
(* `@import `), the two quotes, `~`, the line break, and LINK / SCRIPT     *)
(* (any text matched by the html task's two placeholder patterns).  Every  *)
(* other run of text is one opaque token.  The transforms of the gulp      *)
(* plugins (sass, autoprefixer, postcss-import, cssnano, csso, babel,      *)
(* uglify, htmlmin) are not code of this repository: each is kept as an    *)
(* uninterpreted function, its result being its argument enclosed by a     *)
(* marker that names the transform.                                        *)
(***************************************************************************)
EXTENDS Integers, Sequences, FiniteSets, TLC

VARIABLES
  gulpfile,   \* "new": gulpfile.js, "old": the older gulpfile
  fs,         \* the file system: path -> contents
  fs0,        \* the file system when the run began (never changes)
  orch,       \* gulp's view of each task: pending, running, done, failed
  pipe,       \* each task's pump pipeline: idle, flowing, ended, errored
  todo,       \* per task, the source paths gulp.src has still to emit
  buf,        \* per task, the files inside the pipeline, before a gulp.dest
  wrote,      \* per task, the paths it has written in this run
  readsOf,    \* per task, the paths it has read in this run
  bundleReads,\* the fs.readFileSync calls of html's replace callbacks
  stopped     \* gulp stopped starting tasks (a task reported an error)

vars ==
  <<gulpfile, fs, fs0, orch, pipe, todo, buf, wrote, readsOf, bundleReads, stopped>>

(* ------------------------------ bounds -------------------------------- *)

\* lines of src/scss/main.scss
MaxLines == 2
\* tokens of src/html/report.html
MaxHtmlLen == 3

(* ------------------------------ tokens -------------------------------- *)

IMPORT == "@import "
DQ == "\""
SQ == "'"
TILDE == "~"
NL == "\n"
LINK == "<link href=\"bundle.css\">"
SCRIPT == "<script src=\"bundle.js\"></script>"
CLOSE == ")"

Quotes == {DQ, SQ}

RECURSIVE Join(_, _)
\* the sequences of `parts`, with `sep` between each two
Join(parts, sep) ==
  IF Len(parts) = 0 THEN <<>>
  ELSE IF Len(parts) = 1 THEN parts[1]
  ELSE parts[1] \o sep \o Join(Tail(parts), sep)

\* a plugin's transform of x, uninterpreted
Stage(name, x) == <<name>> \o x \o <<CLOSE>>

(* ------------------------------- paths -------------------------------- *)

\* a path is <<directory, base name, extension>>
Dir(p) == p[1]
Base(p) == p[2]
Ext(p) == p[3]

Glob(files, dir, ext) == {p \in DOMAIN files : Dir(p) = dir /\ Ext(p) = ext}

WriteFile(files, p, c) ==
  [q \in DOMAIN files \cup {p} |-> IF q = p THEN c ELSE files[q]]

requireJsPath == <<"node_modules/requirejs", "require", "js">>
skeletonNormalize == <<"node_modules/skeleton-css/css", "normalize", "css">>
skeletonSkeleton == <<"node_modules/skeleton-css/css", "skeleton", "css">>
mainJsPath == <<"src/js", "main", "js">>
mainScssPath == <<"src/scss", "main", "scss">>
ipythonScssPath == <<"src/scss", "ipython", "scss">>
reportHtmlPath == <<"src/html", "report", "html">>
indexHtmlPath == <<"src/html", "index", "html">>

(* ---------------------- transforms of the plugins --------------------- *)

Sass(x) == Stage("sass(", x)
Autoprefixer(x) == Stage("autoprefixer(", x)
AtImport(x) == Stage("postcss-import(", x)
CssNano(x) == Stage("cssnano(", x)
CssMin(x) == Stage("csso(", x)
Babel(x) == Stage("babel(", x)
Uglify(x) == Stage("uglify(", x)
HtmlMin(x) == Stage("htmlmin(", x)

\* gulp-concat: the files' contents in stream order, joined by a line break
Concat(parts) == Join(parts, <<NL>>)

\* postcss(postCssPlugins): the plugins in the order of the array
PostCss(x) == CssNano(AtImport(Autoprefixer(x)))

(* --------------- the sass-preprocessor's replace stage ---------------- *)

\* ^ without the m flag: the start of the text only
AtTextStart(s, i) == i = 1

\* ^ under the m flag: the start of the text or just after a line break
AtLineStart(s, i) == i = 1 \/ s[i - 1] = NL

\* The index of the quote that ends a match of
\*     /^@import (["'])~(.*?)\1/m
\* beginning at i, or 0 when there is no match at i.  (.*?) is lazy and
\* `.` matches no line break: the match ends at the first quote equal to the
\* opening one, if no line break comes before it.
ImportMatchEnd(s, i) ==
  IF /\ AtLineStart(s, i)
     /\ i + 3 <= Len(s)
     /\ s[i] = IMPORT
     /\ s[i + 1] \in Quotes
     /\ s[i + 2] = TILDE
  THEN LET ends == {k \in (i + 3)..Len(s) :
                      /\ s[k] = s[i + 1]
                      /\ \A j \in (i + 3)..(k - 1) : s[j] # NL /\ s[j] # s[i + 1]}
       IN IF ends = {} THEN 0 ELSE CHOOSE k \in ends : TRUE
  ELSE 0

RECURSIVE ReplaceImportsFrom(_, _)
\* the g flag: every match from i on, left to right, becomes @import "$2"
ReplaceImportsFrom(s, i) ==
  IF i > Len(s) THEN <<>>
  ELSE LET m == ImportMatchEnd(s, i)
       IN IF m > 0
          THEN <<IMPORT, DQ>> \o SubSeq(s, i + 3, m - 1) \o <<DQ>>
                 \o ReplaceImportsFrom(s, m + 1)
          ELSE <<s[i]>> \o ReplaceImportsFrom(s, i + 1)

SassPreprocess(s) == ReplaceImportsFrom(s, 1)

(* -------------------- the html task's replace stages ------------------ *)

Occurrences(s, tag) == {i \in 1..Len(s) : s[i] = tag}

RECURSIVE ReplaceFirst(_, _, _)
\* String.prototype.replace with a pattern that has no g flag: the text is
\* searched from the left and the first match alone is replaced
ReplaceFirst(s, tag, repl) ==
  IF s = <<>> THEN <<>>
  ELSE IF Head(s) = tag THEN repl \o Tail(s)
  ELSE <<Head(s)>> \o ReplaceFirst(Tail(s), tag, repl)

StyleElement(style) == <<"<style>", NL>> \o style \o <<NL, "</style>">>
ScriptElement(script) ==
  <<"<script type=\"text/javascript\">", NL>> \o script \o <<NL, "</script>">>

\* the script callback returning a style element
InlineScriptAsStyle(s, script) == ReplaceFirst(s, SCRIPT, StyleElement(script))

InlineStyle(s, style) == ReplaceFirst(s, LINK, StyleElement(style))
InlineScript(s, script) == ReplaceFirst(s, SCRIPT, ScriptElement(script))

(* ------------------------------ the tasks ----------------------------- *)

StyleTask == IF gulpfile = "new" THEN "css" ELSE "styles"

TaskNames ==
  IF gulpfile = "new"
  THEN {"sass-preprocessor", "css", "ipython-css", "js", "html", "default"}
  ELSE {"styles", "js", "html", "default"}

CssDeps == {"sass-preprocessor"}
\* ipython-css declared without its dependency on css
IpythonCssDepsNone == {}
IpythonCssDeps == {"css"}
\* html declared without its dependency on js
HtmlDepsWithoutJs == {StyleTask}
\* html declared without dependencies
HtmlDepsNone == {}
HtmlDeps == {StyleTask, "js"}
DefaultDeps == IF gulpfile = "new" THEN {"html", "ipython-css"} ELSE {"html"}

Deps(t) ==
  CASE t = "css" -> CssDeps
    [] t = "ipython-css" -> IpythonCssDeps
    [] t = "html" -> HtmlDeps
    [] t = "default" -> DefaultDeps
    [] OTHER -> {}

\* whether the task's function hands gulp's callback to pump
PassesCallback(t) == t # "ipython-css"

\* the bundles html's replace callbacks read
CssBundlePath ==
  IF gulpfile = "new" THEN <<"dist", "main", "css">> ELSE <<"dist", "bundle", "css">>
JsBundlePath ==
  IF gulpfile = "new" THEN <<"dist", "main", "js">> ELSE <<"dist", "bundle", "js">>

\* the tasks whose pipeline joins its sources into one file (gulp-concat)
ConcatTasks == {"styles", "js"}

StylesSources == <<skeletonNormalize, skeletonSkeleton, mainScssPath>>
\* the application script listed before the loader
JsSourcesAppFirst == <<mainJsPath, requireJsPath>>
JsSources == <<requireJsPath, mainJsPath>>

\* gulp.src with an array of paths: in the array's order
SrcList(t) == IF t = "styles" THEN StylesSources ELSE JsSources

\* the paths gulp.src of task t emits, given the files present
SrcPaths(t, files) ==
  CASE t = "sass-preprocessor" -> Glob(files, "src/scss", "scss")
    [] t = "css" -> Glob(files, "dist/scss", "scss")
    [] t = "ipython-css" -> {<<"dist", "ipython", "css">>} \cap DOMAIN files
    [] t = "html" -> Glob(files, "src/html", "html")
    [] OTHER -> {SrcList(t)[i] : i \in 1..Len(SrcList(t))} \cap DOMAIN files

\* html without its second gulp.dest
DestsPreviewOnly(t) ==
  CASE t = "sass-preprocessor" -> <<"dist/scss">>
    [] t = "ipython-css" -> <<"../templates">>
    [] OTHER -> <<"dist">>

\* the directories of the task's gulp.dest stages, in pipeline order
Dests(t) ==
  CASE t = "sass-preprocessor" -> <<"dist/scss">>
    [] t = "ipython-css" -> <<"../templates">>
    [] t = "html" -> <<"dist", "../templates">>
    [] OTHER -> <<"dist">>

\* a file inside a pipeline, on its way to the gulp.dest stage number `dest`
Vinyl(base, ext, contents) ==
  [base |-> base, ext |-> ext, contents |-> contents, dest |-> 1]

\* the stages of the js task between gulp.src and gulp.dest
JsPipeline(files) ==
  Vinyl(Base(JsBundlePath), "js",
        Uglify(Babel(Concat([i \in 1..Len(JsSources) |-> files[JsSources[i]]]))))

\* the stages of the older gulpfile's styles task
StylesPipeline(files) ==
  Vinyl("bundle", "css",
        CssMin(Autoprefixer(
          Concat([i \in 1..Len(StylesSources) |-> Sass(files[StylesSources[i]])]))))

ConcatPipeline(t, files) ==
  IF t = "styles" THEN StylesPipeline(files) ELSE JsPipeline(files)

SassPreprocessorPipeline(p, files) ==
  Vinyl(Base(p), Ext(p), SassPreprocess(files[p]))

\* css without its sass stage
CssPipelineWithoutSass(p, files) == Vinyl(Base(p), "css", PostCss(files[p]))

CssPipeline(p, files) == Vinyl(Base(p), "css", PostCss(Sass(files[p])))

IpythonCssPipeline(p, files) == Vinyl(Base(p), Ext(p), files[p])

\* the html task's stages: the two callbacks read the bundles from disk
HtmlPipeline(p, files) ==
  Vinyl(Base(p), Ext(p),
        HtmlMin(InlineScript(InlineStyle(files[p], files[CssBundlePath]),
                             files[JsBundlePath])))

FilePipeline(t, p, files) ==
  CASE t = "sass-preprocessor" -> SassPreprocessorPipeline(p, files)
    [] t = "css" -> CssPipeline(p, files)
    [] t = "ipython-css" -> IpythonCssPipeline(p, files)
    [] OTHER -> HtmlPipeline(p, files)

\* the bundle files the html task's callbacks read while it handles p:
\* a callback runs only when its pattern matches
HtmlReads(p, files) ==
  (IF Occurrences(files[p], LINK) # {} THEN {CssBundlePath} ELSE {})
  \cup
  (IF Occurrences(InlineStyle(files[p], files[CssBundlePath]), SCRIPT) # {}
   THEN {JsBundlePath} ELSE {})

\* the task that writes a bundle
BundleWriter(b) == IF b = CssBundlePath THEN StyleTask ELSE "js"

(* ------------------------------- inputs ------------------------------- *)

\* the lines src/scss/main.scss is made of
ScssLines ==
  { <<IMPORT, DQ, TILDE, "skeleton-css", DQ, ";">>,       \* @import "~pkg";
    <<IMPORT, SQ, TILDE, "skeleton-css", SQ, ";">>,       \* @import '~pkg';
    <<IMPORT, DQ, "variables", DQ, ";">>,                 \* @import "local";
    <<"  ", IMPORT, DQ, TILDE, "skeleton-css", DQ, ";">>, \* an indented import
    <<IMPORT, DQ, TILDE, "skeleton-css", SQ, ";">>,       \* quotes that differ
    <<"h1 { content: ", DQ, SCRIPT, DQ, " }">> }          \* a rule

RECURSIVE LinesUpTo(_)
\* the sequences of 1..n lines
LinesUpTo(n) ==
  IF n = 0 THEN {}
  ELSE {<<l>> : l \in ScssLines}
       \cup LinesUpTo(n - 1)
       \cup {Append(ls, l) : ls \in LinesUpTo(n - 1), l \in ScssLines}

Sheets == {Join(ls, <<NL>>) : ls \in LinesUpTo(MaxLines)}

RECURSIVE SeqsUpTo(_, _)
SeqsUpTo(S, n) ==
  IF n = 0 THEN {<<>>}
  ELSE SeqsUpTo(S, n - 1)
       \cup {Append(q, x) : q \in SeqsUpTo(S, n - 1), x \in S}

Templates == SeqsUpTo({LINK, SCRIPT, "<p>text</p>"}, MaxHtmlLen) \ {<<>>}

AppScripts ==
  { <<"requirejs.config({paths: jsPaths});">>,
    <<"var a = '", LINK, "';">>,
    <<"var b = '", SCRIPT, "';">> }

DefaultSheet == <<IMPORT, SQ, TILDE, "skeleton-css", SQ, ";">>
DefaultTemplate == <<"<p>text</p>", LINK, SCRIPT>>
DefaultApp == <<"requirejs.config({paths: jsPaths});">>

\* what an earlier run left behind
Stale == <<"stale">>

SourceFiles(sheet, template, app) ==
  (requireJsPath :> <<"var requirejs;">>)
  @@ (skeletonNormalize :> <<"html { }">>)
  @@ (skeletonSkeleton :> <<".container { }">>)
  @@ (mainJsPath :> app)
  @@ (mainScssPath :> sheet)
  @@ (ipythonScssPath :> DefaultSheet)
  @@ (reportHtmlPath :> template)
  @@ (indexHtmlPath :> DefaultTemplate)

StaleFiles ==
  (CssBundlePath :> Stale)
  @@ (JsBundlePath :> Stale)
  @@ (<<"../templates", "report", "html">> :> Stale)

(* ------------------------------- actions ------------------------------ *)

Init ==
  /\ gulpfile \in {"new", "old"}
  /\ \E sheet \in Sheets, template \in Templates, app \in AppScripts :
       \* the inputs vary one at a time
       /\ \/ template = DefaultTemplate /\ app = DefaultApp
          \/ sheet = DefaultSheet /\ app = DefaultApp
          \/ sheet = DefaultSheet /\ template = DefaultTemplate
       /\ fs0 = SourceFiles(sheet, template, app) @@ StaleFiles
  /\ fs = fs0
  /\ orch = [t \in TaskNames |-> "pending"]
  /\ pipe = [t \in TaskNames |-> "idle"]
  /\ todo = [t \in TaskNames |-> {}]
  /\ buf = [t \in TaskNames |-> {}]
  /\ wrote = [t \in TaskNames |-> {}]
  /\ readsOf = [t \in TaskNames |-> {}]
  /\ bundleReads = {}
  /\ stopped = FALSE

\* gulp starts a task once every task it depends on has finished
Start(t) ==
  /\ t # "default"
  /\ ~stopped
  /\ orch[t] = "pending"
  /\ \A d \in Deps(t) : orch[d] = "done"
  /\ orch' = [orch EXCEPT ![t] = "running"]
  /\ pipe' = [pipe EXCEPT ![t] = "flowing"]
  /\ todo' = [todo EXCEPT ![t] = SrcPaths(t, fs)]
  /\ UNCHANGED <<gulpfile, fs, fs0, buf, wrote, readsOf, bundleReads, stopped>>

\* one source file passes the stages before the first gulp.dest
Emit(t, p) ==
  /\ t \notin ConcatTasks
  /\ pipe[t] = "flowing"
  /\ p \in todo[t]
  /\ t = "html" => HtmlReads(p, fs) \subseteq DOMAIN fs
  /\ todo' = [todo EXCEPT ![t] = @ \ {p}]
  /\ buf' = [buf EXCEPT ![t] = @ \cup {FilePipeline(t, p, fs)}]
  /\ bundleReads' =
       IF t = "html"
       THEN bundleReads \cup
              {[path |-> b,
                afterWrite |-> /\ pipe[BundleWriter(b)] = "ended"
                               /\ b \in wrote[BundleWriter(b)]] :
                 b \in HtmlReads(p, fs)}
       ELSE bundleReads
  /\ readsOf' = [readsOf EXCEPT ![t] =
                   @ \cup {p} \cup (IF t = "html" THEN HtmlReads(p, fs) ELSE {})]
  /\ UNCHANGED <<gulpfile, fs, fs0, orch, pipe, wrote, stopped>>

\* gulp-concat emits its one file when every source has been read
EmitConcat(t) ==
  /\ t \in ConcatTasks
  /\ pipe[t] = "flowing"
  /\ todo[t] # {}
  /\ todo' = [todo EXCEPT ![t] = {}]
  /\ buf' = [buf EXCEPT ![t] = @ \cup {ConcatPipeline(t, fs)}]
  /\ readsOf' = [readsOf EXCEPT ![t] = @ \cup todo[t]]
  /\ UNCHANGED <<gulpfile, fs, fs0, orch, pipe, wrote, bundleReads, stopped>>

\* a gulp.dest stage writes a file and passes it on
Write(t, f) ==
  /\ pipe[t] = "flowing"
  /\ f \in buf[t]
  /\ LET path == <<Dests(t)[f.dest], f.base, f.ext>>
     IN /\ fs' = WriteFile(fs, path, f.contents)
        /\ wrote' = [wrote EXCEPT ![t] = @ \cup {path}]
  /\ buf' = [buf EXCEPT ![t] =
               (@ \ {f}) \cup (IF f.dest < Len(Dests(t))
                               THEN {[f EXCEPT !.dest = @ + 1]}
                               ELSE {})]
  /\ UNCHANGED <<gulpfile, fs0, orch, pipe, todo, readsOf, bundleReads, stopped>>

\* the last stream finishes: pump calls the callback it was given
Finish(t) ==
  /\ pipe[t] = "flowing"
  /\ todo[t] = {}
  /\ buf[t] = {}
  /\ pipe' = [pipe EXCEPT ![t] = "ended"]
  /\ orch' = IF PassesCallback(t) THEN [orch EXCEPT ![t] = "done"] ELSE orch
  /\ UNCHANGED <<gulpfile, fs, fs0, todo, buf, wrote, readsOf, bundleReads, stopped>>

\* a stage emits an error: pump destroys the streams and calls the callback
\* it was given with the error; gulp then starts no further task
Fail(t) ==
  /\ pipe[t] = "flowing"
  /\ pipe' = [pipe EXCEPT ![t] = "errored"]
  /\ todo' = [todo EXCEPT ![t] = {}]
  /\ buf' = [buf EXCEPT ![t] = {}]
  /\ orch' = IF PassesCallback(t) THEN [orch EXCEPT ![t] = "failed"] ELSE orch
  /\ stopped' = (stopped \/ PassesCallback(t))
  /\ UNCHANGED <<gulpfile, fs, fs0, wrote, readsOf, bundleReads>>

\* default has no function: it is finished when its dependencies are
RunDefault ==
  /\ ~stopped
  /\ orch["default"] = "pending"
  /\ \A d \in Deps("default") : orch[d] = "done"
  /\ orch' = [orch EXCEPT !["default"] = "done"]
  /\ UNCHANGED <<gulpfile, fs, fs0, pipe, todo, buf, wrote, readsOf, bundleReads, stopped>>

Next ==
  \/ \E t \in TaskNames : Start(t)
  \/ \E t \in TaskNames : \E p \in todo[t] : Emit(t, p)
  \/ \E t \in TaskNames : EmitConcat(t)
  \/ \E t \in TaskNames : \E f \in buf[t] : Write(t, f)
  \/ \E t \in TaskNames : Finish(t)
  \/ \E t \in TaskNames : Fail(t)
  \/ RunDefault

Spec == Init /\ [][Next]_vars

(* ------------------------------- claims ------------------------------- *)

Ended(t) == pipe[t] = "ended"
NoFailure == \A t \in TaskNames : pipe[t] # "errored"
HtmlSources == Glob(fs0, "src/html", "html")
Preview(p) == <<"dist", Base(p), "html">>
Published(p) == <<"../templates", Base(p), "html">>

\* C1: the html task starts only after the style task and the js task have
\* completed, and every read of a bundle by html's replace callbacks comes
\* after the style / js task of this run has written that bundle and ended.
C1_HtmlAfterBundles ==
  /\ orch["html"] # "pending" =>
       /\ orch[StyleTask] = "done" /\ Ended(StyleTask)
       /\ orch["js"] = "done" /\ Ended("js")
  /\ \A r \in bundleReads : r.afterWrite

C1_Witness ==
  /\ Ended("html")
  /\ {r.path : r \in bundleReads} = {CssBundlePath, JsBundlePath}

\* C3: once html has ended without error, every template of src/html has a
\* file of its name in dist and in ../templates, the two are equal, and they
\* hold the minified html, not what an earlier run left.
C3_BothDestinations ==
  Ended("html") =>
    \A p \in HtmlSources :
      /\ Preview(p) \in DOMAIN fs
      /\ Published(p) \in DOMAIN fs
      /\ fs[Preview(p)] = fs[Published(p)]
      /\ Head(fs[Published(p)]) = "htmlmin("
      /\ {Preview(p), Published(p)} \subseteq wrote["html"]

C3_Witness ==
  /\ Ended("html")
  /\ Cardinality(HtmlSources) = 2
  /\ fs[<<"../templates", "report", "html">>] # Stale

\* C4: the js task writes one file to dist, the js bundle, and its content is
\* uglify(babel(loader, line break, application script)): require.js first.
C4_JsBundle ==
  /\ wrote["js"] \subseteq {JsBundlePath}
  /\ Ended("js") =>
       /\ wrote["js"] = {JsBundlePath}
       /\ fs[JsBundlePath] =
            <<"uglify(", "babel(">> \o fs0[requireJsPath] \o <<NL>>
              \o fs0[mainJsPath] \o <<CLOSE, CLOSE>>

C4_Witness == Ended("js") /\ fs[JsBundlePath] # Stale /\ fs0[mainJsPath] # DefaultApp

\* C9: when a stage of the style task or of the js task fails, the task's
\* callback gets the error (gulp records the task as failed), html is never
\* started, and the html files of ../templates are those from before the run.
C9_FailureStopsHtml ==
  \A t \in {t \in TaskNames : t \in {"sass-preprocessor", "css", "styles", "js"}} :
    pipe[t] = "errored" =>
      /\ orch[t] = "failed"
      /\ stopped
      /\ orch["html"] = "pending" /\ pipe["html"] = "idle"
      /\ \A p \in DOMAIN fs \cup DOMAIN fs0 :
           (Dir(p) = "../templates" /\ Ext(p) = "html") =>
             /\ p \in DOMAIN fs /\ p \in DOMAIN fs0
             /\ fs[p] = fs0[p]

C9_Witness ==
  /\ pipe["js"] = "errored"
  /\ Ended(StyleTask)
  /\ \A t \in TaskNames : pipe[t] # "flowing"

\* the index of the first tag in s, 0 when there is none
FirstAt(s, tag) ==
  IF Occurrences(s, tag) = {} THEN 0
  ELSE CHOOSE i \in Occurrences(s, tag) : \A j \in Occurrences(s, tag) : i <= j

\* s with the element at index i replaced by the sequence repl
Spliced(s, i, repl) ==
  IF i = 0 THEN s ELSE SubSeq(s, 1, i - 1) \o repl \o SubSeq(s, i + 1, Len(s))

RECURSIVE EveryReplaced(_, _, _)
\* s with every tag replaced by repl
EveryReplaced(s, tag, repl) ==
  IF s = <<>> THEN <<>>
  ELSE (IF Head(s) = tag THEN repl ELSE <<Head(s)>>)
         \o EveryReplaced(Tail(s), tag, repl)

StyleOf(bundle) == <<"<style>", NL>> \o bundle \o <<NL, "</style>">>
ScriptOf(bundle) ==
  <<"<script type=\"text/javascript\">", NL>> \o bundle \o <<NL, "</script>">>

HasPlaceholder(s) == Occurrences(s, LINK) # {} \/ Occurrences(s, SCRIPT) # {}

\* C2 as stated: after html has ended without error, each placeholder tag of
\* each template has been replaced by the style / script element that holds
\* the generated bundle, and the produced html holds no placeholder.
C2_EveryPlaceholderReplaced ==
  Ended("html") =>
    \A p \in HtmlSources :
      /\ fs[Published(p)] =
           <<"htmlmin(">>
             \o EveryReplaced(
                  EveryReplaced(fs0[p], LINK, StyleOf(fs[CssBundlePath])),
                  SCRIPT, ScriptOf(fs[JsBundlePath]))
             \o <<CLOSE>>
      /\ ~HasPlaceholder(fs[Published(p)])

\* C2 amended: after html has ended without error, the produced html is the
\* minified template in which the first link placeholder is replaced by the
\* style element holding the css bundle of this run and then the first script
\* placeholder of the resulting text by the script element holding the js
\* bundle of this run; any further placeholder is kept.  It holds no
\* placeholder when the template has at most one of each kind and neither
\* bundle contains text that a placeholder pattern matches.
C2_FirstPlaceholderReplaced ==
  Ended("html") =>
    /\ CssBundlePath \in wrote[StyleTask]
    /\ JsBundlePath \in wrote["js"]
    /\ \A p \in HtmlSources :
         LET styled == Spliced(fs0[p], FirstAt(fs0[p], LINK),
                               StyleOf(fs[CssBundlePath]))
             inlined == Spliced(styled, FirstAt(styled, SCRIPT),
                                ScriptOf(fs[JsBundlePath]))
         IN /\ fs[Preview(p)] = <<"htmlmin(">> \o inlined \o <<CLOSE>>
            /\ fs[Published(p)] = fs[Preview(p)]
            /\ ( /\ Cardinality(Occurrences(fs0[p], LINK)) <= 1
                 /\ Cardinality(Occurrences(fs0[p], SCRIPT)) <= 1
                 /\ ~HasPlaceholder(fs[CssBundlePath])
                 /\ ~HasPlaceholder(fs[JsBundlePath]) )
               => ~HasPlaceholder(fs[Published(p)])

C2_Witness ==
  /\ Ended("html")
  /\ Cardinality(Occurrences(fs0[reportHtmlPath], LINK)) = 2
  /\ HasPlaceholder(fs[<<"../templates", "report", "html">>])
  /\ ~HasPlaceholder(fs[<<"../templates", "index", "html">>])

(* the style pipeline *)

StylePipelineTasks ==
  IF gulpfile = "new" THEN {"sass-preprocessor", "css"} ELSE {"styles"}
StyleWrites == UNION {wrote[t] : t \in StylePipelineTasks}
UnderDist(p) == Dir(p) \in {"dist", "dist/scss"}

StyleMarkers == {"sass(", "autoprefixer(", "cssnano(", "csso("}
Markers == StyleMarkers \cup {"postcss-import(", "babel(", "uglify(", "htmlmin("}
Minifiers == {"cssnano(", "csso("}

RECURSIVE StackAt(_, _)
\* the transforms that enclose the token after c[i], outermost first
StackAt(c, i) ==
  IF i = 0 THEN <<>>
  ELSE LET st == StackAt(c, i - 1)
       IN IF c[i] \in Markers THEN Append(st, c[i])
          ELSE IF c[i] = CLOSE THEN SubSeq(st, 1, Len(st) - 1)
          ELSE st

IsStyleMarker(m) == m \in StyleMarkers

\* every token of c that comes from a source went through sass, then the
\* prefixer, then the minifier; a line break may be gulp-concat's, put in
\* after sass
PassedStyleStages(c) ==
  \A i \in 1..Len(c) :
    c[i] \notin Markers \cup {CLOSE} =>
      LET st == SelectSeq(StackAt(c, i), IsStyleMarker)
      IN \/ /\ Len(st) = 3
            /\ st[1] \in Minifiers /\ st[2] = "autoprefixer(" /\ st[3] = "sass("
         \/ /\ c[i] = NL
            /\ Len(st) = 2
            /\ st[1] \in Minifiers /\ st[2] = "autoprefixer("

\* whether every token of part occurs in c
Holds(c, part) == \A i \in 1..Len(part) : Occurrences(c, part[i]) # {}

\* C5 as stated: the style pipeline joins its sources into a single bundle,
\* and whatever it writes to the build output directory has passed sass,
\* then the prefixer, then the minifier.
C5_SingleCompiledBundle ==
  /\ \A p \in StyleWrites : UnderDist(p) => PassedStyleStages(fs[p])
  /\ Ended(StyleTask) => Cardinality(StyleWrites) = 1

\* C5 amended: the older gulpfile's styles task joins its three sources into
\* the single bundle dist/bundle.css.  gulpfile.js joins nothing: css writes
\* one .css file per preprocessed sheet of dist/scss.  In both, every file the
\* style pipeline writes directly into dist is a .css file that has passed
\* sass, then the prefixer, then the minifier; the only other files it writes
\* are the sass-preprocessor's uncompiled copies in dist/scss.
C5_StyleStagesInOrder ==
  /\ \A p \in StyleWrites :
       \/ /\ Dir(p) = "dist" /\ Ext(p) = "css"
          /\ PassedStyleStages(fs[p])
       \/ /\ Dir(p) = "dist/scss" /\ Ext(p) = "scss"
          /\ p \in wrote["sass-preprocessor"]
  /\ (gulpfile = "old" /\ Ended("styles")) =>
       /\ wrote["styles"] = {<<"dist", "bundle", "css">>}
       /\ \A i \in 1..Len(StylesSources) :
            Holds(fs[<<"dist", "bundle", "css">>], fs0[StylesSources[i]])
  /\ (gulpfile = "new" /\ Ended("css")) =>
       wrote["css"] =
         {<<"dist", Base(p), "css">> : p \in Glob(fs0, "src/scss", "scss")}

C5_Witness ==
  /\ gulpfile = "new"
  /\ Ended("css")
  /\ Cardinality(wrote["css"]) = 2
  /\ Cardinality(wrote["sass-preprocessor"]) = 2

(* the sass-preprocessor *)

RECURSIVE SplitLines(_)
\* the lines of s: the pieces between its line breaks
SplitLines(s) ==
  IF FirstAt(s, NL) = 0 THEN <<s>>
  ELSE <<SubSeq(s, 1, FirstAt(s, NL) - 1)>>
         \o SplitLines(SubSeq(s, FirstAt(s, NL) + 1, Len(s)))

\* the quotes of line l, from its fourth token on, equal to its opening quote
ClosingQuotes(l) == {k \in 4..Len(l) : l[k] = l[2]}

\* whether line l begins with @import, a quote, ~ and has the same quote again
StartsWithTildeImport(l) ==
  /\ Len(l) >= 4
  /\ l[1] = IMPORT /\ l[2] \in Quotes /\ l[3] = TILDE
  /\ ClosingQuotes(l) # {}

\* line l with the import at its start rewritten: no ~, double quotes
WithoutTilde(l) ==
  LET k == CHOOSE i \in ClosingQuotes(l) : \A j \in ClosingQuotes(l) : i <= j
  IN <<IMPORT, DQ>> \o SubSeq(l, 4, k - 1) \o <<DQ>> \o SubSeq(l, k + 1, Len(l))

\* an @import with a quoted path that begins with ~, at index i of s
TildeImportAt(s, i) ==
  /\ i + 3 <= Len(s)
  /\ s[i] = IMPORT /\ s[i + 1] \in Quotes /\ s[i + 2] = TILDE
  /\ \E k \in (i + 3)..Len(s) :
       /\ s[k] = s[i + 1]
       /\ \A j \in (i + 3)..(k - 1) : s[j] # NL

ScssSource(p) == <<"src/scss", Base(p), "scss">>

CssAfterPreprocessor ==
  gulpfile = "new" =>
    /\ orch["css"] # "pending" =>
         orch["sass-preprocessor"] = "done" /\ Ended("sass-preprocessor")
    /\ \A p \in readsOf["css"] :
         Dir(p) = "dist/scss" /\ p \in wrote["sass-preprocessor"]

\* C7 as stated: css starts only after sass-preprocessor has completed and
\* compiles only the copies under dist/scss, and in every copy each @import
\* whose quoted path begins with ~ has been rewritten without the ~: none is
\* left.
C7_EveryTildeImportRewritten ==
  /\ CssAfterPreprocessor
  /\ gulpfile = "new" =>
       \A p \in wrote["sass-preprocessor"] :
         \A i \in 1..Len(fs[p]) : ~TildeImportAt(fs[p], i)

\* C7 amended: css starts only after sass-preprocessor has completed and
\* compiles only the copies under dist/scss; each copy is its source sheet
\* line by line, where a line that begins with `@import `, a quote, ~ and
\* holds the same quote again has its import rewritten without the ~ and
\* double-quoted, and every other line (an import that does not start its
\* line, or whose quotes differ, included) is unchanged.
C7_LineStartImportsRewritten ==
  /\ CssAfterPreprocessor
  /\ gulpfile = "new" =>
       \A p \in wrote["sass-preprocessor"] :
         LET src == SplitLines(fs0[ScssSource(p)])
         IN SplitLines(fs[p]) =
              [i \in 1..Len(src) |->
                 IF StartsWithTildeImport(src[i]) THEN WithoutTilde(src[i])
                 ELSE src[i]]

C7_Witness ==
  /\ gulpfile = "new"
  /\ orch["css"] = "done"
  /\ LET src == SplitLines(fs0[mainScssPath])
     IN /\ Len(src) = 2
        /\ StartsWithTildeImport(src[2])
        /\ Head(src[1]) = "  "
        /\ \E i \in 1..Len(fs[<<"dist/scss", "main", "scss">>]) :
             TildeImportAt(fs[<<"dist/scss", "main", "scss">>], i)

(* the run as a whole *)

AllEnded == \A t \in TaskNames \ {"default"} : Ended(t)

OutputDirs == {"dist", "dist/scss", "../templates"}
Outputs(files) ==
  [p \in {q \in DOMAIN files : Dir(q) \in OutputDirs} |-> files[p]]

ExpectedCss(b) ==
  IF gulpfile = "new"
  THEN PostCss(Sass(SassPreprocess(fs0[<<"src/scss", b, "scss">>])))
  ELSE CssMin(Autoprefixer(Concat(<<Sass(fs0[skeletonNormalize]),
                                    Sass(fs0[skeletonSkeleton]),
                                    Sass(fs0[mainScssPath])>>)))
ExpectedJs == Uglify(Babel(Concat(<<fs0[requireJsPath], fs0[mainJsPath]>>)))

ExpectedAt(p) ==
  CASE Dir(p) = "dist/scss" -> SassPreprocess(fs0[ScssSource(p)])
    [] Ext(p) = "css" -> ExpectedCss(Base(p))
    [] Ext(p) = "js" -> ExpectedJs
    [] OTHER ->
         HtmlMin(InlineScript(InlineStyle(fs0[<<"src/html", Base(p), "html">>],
                                          ExpectedCss(Base(CssBundlePath))),
                              ExpectedJs))

ExpectedPaths ==
  {CssBundlePath, JsBundlePath}
  \cup {Preview(p) : p \in HtmlSources}
  \cup {Published(p) : p \in HtmlSources}
  \cup (IF gulpfile = "old" THEN {}
        ELSE {<<"dist/scss", Base(p), "scss">> : p \in Glob(fs0, "src/scss", "scss")}
             \cup {<<"dist", Base(p), "css">> : p \in Glob(fs0, "src/scss", "scss")}
             \cup {<<"../templates", "ipython", "css">>})

\* C6: the declared dependencies are all the coordination the build needs:
\* two tasks whose pipelines run at the same time never have one write a
\* file the other has read or written, no two tasks write the same file, and
\* a run in which no stage fails ends with the same contents of dist and
\* ../templates whatever the interleaving.
C6_NoCoordinationNeeded ==
  /\ \A t, u \in TaskNames :
       (t # u /\ pipe[t] = "flowing" /\ pipe[u] = "flowing") =>
         (readsOf[t] \cup wrote[t]) \cap wrote[u] = {}
  /\ \A t, u \in TaskNames : t # u => wrote[t] \cap wrote[u] = {}
  /\ (AllEnded /\ NoFailure) =>
       Outputs(fs) = [p \in ExpectedPaths |-> ExpectedAt(p)]

C6_Witness ==
  /\ gulpfile = "new"
  /\ AllEnded
  /\ fs[<<"../templates", "ipython", "css">>] = fs[<<"dist", "ipython", "css">>]
  /\ fs0[reportHtmlPath] # DefaultTemplate

\* C8: when no stage fails the run of default terminates: gulp cannot be
\* left with nothing to do while a task of default's closure, or default
\* itself, has not been reported finished.
C8_DefaultTerminates ==
  NoFailure => ((\A t \in TaskNames : orch[t] = "done") \/ ENABLED Next)

====
